---------------------------- MODULE Spec2Model ----------------------------
(***************************************************************************)
(* Model of the auto-registering factory of src/factory.h (the revision    *)
(* of lines 116-274): the registry Factory<Pet, int>, its function-local   *)
(* static std::map keyed by const char* under cmp_cstr, the trigger        *)
(* RegisteredInFactory<...>::_FACTORY_INIT, and the client calls of main.  *)
(***************************************************************************)
EXTENDS Integers, Sequences, FiniteSets, TLC

VARIABLES
    ARDUINO,                    \* build: the value #if sees for ARDUINO (nonzero = TRUE)
    FACTORY_NO_ARDUINO_ASSERT,  \* build: the value #if sees for FACTORY_NO_ARDUINO_ASSERT
    linked,                     \* build: the RegisteredInFactory<...> specialisations instantiated
    guard,                      \* GetMap: the function-local static has been constructed
    registeredTypesInternal,    \* GetMap: the std::map, as its in-order sequence of (first, second)
    _FACTORY_INIT,              \* per trigger: the static bool (zero-initialised, then Register's result)
    pending,                    \* startup: the linked triggers whose initialiser has not run yet
    phase,                      \* "static_init", "main" or "aborted"
    allocated,                  \* number of objects operator new has handed out
    initLog,                    \* history: the Register calls made by trigger initialisers, in order
    succeeded,                  \* history: the (key content, function) of every Register that returned true
    last,                       \* history: the last call, its arguments, result and pre-state
    many,                       \* the registries Factory<Pet, int> and Factory<Pet, int, bool> side by side
    loop,                       \* the enumeration loop of main: its position, n and what it created
    threads                     \* two callers of Register, each between its lookup and its insert

\* the variables of the programs with several registries, a loop or two callers
ext == <<many, loop, threads>>

vars == <<ARDUINO, FACTORY_NO_ARDUINO_ASSERT, linked, guard, registeredTypesInternal,
          _FACTORY_INIT, pending, phase, allocated, initLog, succeeded, last, ext>>

---------------------------------------------------------------------------
(* Bounds *)

\* operator new is called at most this many times in one run
MaxObjects == 2

\* GetNameByIndex is called with an index in 0..MaxIndex
MaxIndex == 3

---------------------------------------------------------------------------
(* Keys: const char* pointers to NUL-terminated byte strings *)

\* The string literals of the program, by address. Literals 1 and 3 have the
\* same content at different addresses; 4 differs from them only in case.
Literals ==
    << <<67, 97, 116>>,     \* 1: "Cat"
       <<68, 111, 103>>,    \* 2: "Dog"
       <<67, 97, 116>>,     \* 3: "Cat" (another literal)
       <<99, 97, 116>> >>   \* 4: "cat"

Ptrs == DOMAIN Literals

\* the byte at a pointer plus offset; the terminating NUL after the last byte
ByteAt(s, i) == IF i <= Len(s) THEN s[i] ELSE 0

RECURSIVE strcmp_from(_, _, _)
strcmp_from(s, t, i) ==
    IF ByteAt(s, i) # ByteAt(t, i) THEN ByteAt(s, i) - ByteAt(t, i)
    ELSE IF ByteAt(s, i) = 0 THEN 0
    ELSE strcmp_from(s, t, i + 1)

\* strcmp(a, b) on two pointers: negative, zero or positive
strcmp(a, b) == strcmp_from(Literals[a], Literals[b], 1)

\* a faulty variant of cmp_cstr: the default std::less of the pointer type, which orders by address
cmp_cstr_by_address(a, b) == a < b

\* struct cmp_cstr: the map's strict weak order
cmp_cstr(a, b) == strcmp(a, b) < 0

---------------------------------------------------------------------------
(* The std::map of GetMap, keyed by pointer and ordered by cmp_cstr *)

\* end(): one past the last element
end(m) == Len(m) + 1

\* lower_bound: the first position whose key is not less than name
RECURSIVE lower_bound_from(_, _, _)
lower_bound_from(m, name, i) ==
    IF i > Len(m) THEN end(m)
    ELSE IF ~cmp_cstr(m[i].first, name) THEN i
    ELSE lower_bound_from(m, name, i + 1)

lower_bound(m, name) == lower_bound_from(m, name, 1)

\* find: the position of the element equivalent to name, or end()
find(m, name) ==
    LET i == lower_bound(m, name)
    IN  IF i # end(m) /\ ~cmp_cstr(name, m[i].first) THEN i ELSE end(m)

\* a faulty variant of MapAssign: the element at the insertion point is overwritten
\* without testing that its key is equivalent
MapAssign_no_equivalence_test(m, name, f) ==
    LET i == lower_bound(m, name)
    IN  IF i # end(m)
        THEN [m EXCEPT ![i] = [first |-> name, second |-> f]]
        ELSE Append(m, [first |-> name, second |-> f])

\* a faulty variant of MapAssign: as std::map::insert, the function of an
\* equivalent key is kept
MapAssign_insert_only(m, name, f) ==
    LET i == lower_bound(m, name)
    IN  IF i # end(m) /\ ~cmp_cstr(name, m[i].first)
        THEN m
        ELSE SubSeq(m, 1, i - 1) \o <<[first |-> name, second |-> f]>>
                 \o SubSeq(m, i, Len(m))

\* operator[] then assignment of f: insert (name, f) in order if no equivalent key, else assign second
MapAssign(m, name, f) ==
    LET i == lower_bound(m, name)
    IN  IF i # end(m) /\ ~cmp_cstr(name, m[i].first)
        THEN [m EXCEPT ![i].second = f]
        ELSE SubSeq(m, 1, i - 1) \o <<[first |-> name, second |-> f]>>
                 \o SubSeq(m, i, Len(m))

\* a faulty variant of GetMap: the map is not static, so every access constructs a new one
GetMap_not_static == <<>>

\* GetMap(): the map this call sees; the static is constructed empty on first access
GetMap == IF guard THEN registeredTypesInternal ELSE <<>>

---------------------------------------------------------------------------
(* Derived classes, their creation functions and their triggers *)

\* the null pointer, as a key and as an object
nullptr == 0

Classes == {"Cat", "Dog"}

\* the constructor argument of Factory<Pet, int>
Ages == {5, 6}

\* TClass::GetFactoryKey(): the address of the class's key literal
\* ("Tabby" is a class whose key is not unique: it returns another "Cat" literal)
GetFactoryKey(TClass) == IF TClass = "Cat" THEN 1 ELSE IF TClass = "Dog" THEN 2 ELSE 3

\* the function pointer TClass::CreateInstance
CreateInstance(TClass) == [class |-> TClass]

Funcs == {CreateInstance(c) : c \in Classes}

\* a call of a creation function: new TClass(age), the next object of the heap
Call(funcCreate, age, alloc) ==
    [funcCreate |-> funcCreate, args |-> age, result |-> alloc + 1]

\* the specialisations RegisteredInFactory<Pet, TClass, int> a program may instantiate
AllTriggers == {[TParent |-> "Pet", TClass |-> c, TArgs |-> "int"] : c \in Classes}

---------------------------------------------------------------------------
(* The operations of Factory<Pet, int>, as functions of the map they see *)

\* a faulty variant of Register: a duplicate key overwrites the stored function
Register_overwrite(m, name, funcCreate) ==
    [map |-> MapAssign(m, name, funcCreate), ret |-> find(m, name) = end(m)]

\* a faulty variant of Register: the insertion is appended instead of placed in key order
Register_append(m, name, funcCreate) ==
    IF find(m, name) = end(m)
    THEN [map |-> Append(m, [first |-> name, second |-> funcCreate]), ret |-> TRUE]
    ELSE [map |-> m, ret |-> FALSE]

\* Register(name, funcCreate): the map afterwards and the value returned
Register(m, name, funcCreate) ==
    LET typeTuple == find(m, name)
    IN  IF typeTuple = end(m)
        THEN [map |-> MapAssign(m, name, funcCreate), ret |-> TRUE]
        ELSE [map |-> m, ret |-> FALSE]

\* a faulty variant of Create: operator[] instead of find, which inserts a missing key
Create_subscript(m, name, args, alloc) ==
    LET typeTuple == find(m, name)
    IN  IF typeTuple # end(m)
        THEN [map |-> m, outcome |-> "return", ret |-> alloc + 1,
              calls |-> <<Call(m[typeTuple].second, args, alloc)>>]
        ELSE [map |-> MapAssign(m, name, [class |-> "Cat"]), outcome |-> "return",
              ret |-> nullptr, calls |-> <<>>]

\* a faulty variant of Create: the first entry's function is called, whatever the key found
Create_first(m, name, args, alloc) ==
    LET typeTuple == find(m, name)
    IN  IF typeTuple # end(m)
        THEN [map |-> m, outcome |-> "return", ret |-> alloc + 1,
              calls |-> <<Call(m[1].second, args, alloc)>>]
        ELSE [map |-> m, outcome |-> "return", ret |-> nullptr, calls |-> <<>>]

\* Create(name, args...): the map afterwards, how the call ends, the pointer
\* returned and the creation functions called
Create(m, name, args, alloc) ==
    LET typeTuple == find(m, name)
    IN  IF typeTuple # end(m)
        THEN LET funcCreate == m[typeTuple].second
                 call == Call(funcCreate, args, alloc)
             IN  [map |-> m, outcome |-> "return", ret |-> call.result,
                  calls |-> <<call>>]
        ELSE [map |-> m, outcome |-> "return", ret |-> nullptr, calls |-> <<>>]

\* a faulty variant of IsRegistered: the keys are compared by address
IsRegistered_by_address(m, name) == \E i \in 1..Len(m) : m[i].first = name

\* IsRegistered(name)
IsRegistered(m, name) ==
    LET typeTuple == find(m, name)
    IN  IF typeTuple # end(m) THEN TRUE ELSE FALSE

\* GetCount()
GetCount(m) == Len(m)

\* the condition of the #if of GetNameByIndex
AssertBuild == ARDUINO /\ ~FACTORY_NO_ARDUINO_ASSERT

\* a faulty variant of GetNameByIndex: the bounds check is off by one
GetNameByIndex_off_by_one(m, index) ==
    IF AssertBuild /\ ~(index <= Len(m))
    THEN [outcome |-> "assert_fail", ret |-> nullptr, read |-> <<>>]
    ELSE IF ~AssertBuild /\ index > Len(m)
    THEN [outcome |-> "return", ret |-> nullptr, read |-> <<>>]
    ELSE IF 1 + index <= Len(m)
    THEN [outcome |-> "return", ret |-> m[1 + index].first, read |-> <<1 + index>>]
    ELSE [outcome |-> "undefined", ret |-> nullptr, read |-> <<1 + index>>]

\* a faulty variant of GetNameByIndex: the general-purpose build has no bounds check
GetNameByIndex_no_bounds_check(m, index) ==
    IF AssertBuild /\ ~(index < Len(m))
    THEN [outcome |-> "assert_fail", ret |-> nullptr, read |-> <<>>]
    ELSE IF 1 + index <= Len(m)
    THEN [outcome |-> "return", ret |-> m[1 + index].first, read |-> <<1 + index>>]
    ELSE [outcome |-> "undefined", ret |-> nullptr, read |-> <<1 + index>>]

\* a faulty variant of GetNameByIndex: the iterator is not advanced by index
GetNameByIndex_not_advanced(m, index) ==
    IF AssertBuild /\ ~(index < Len(m))
    THEN [outcome |-> "assert_fail", ret |-> nullptr, read |-> <<>>]
    ELSE IF ~AssertBuild /\ index >= Len(m)
    THEN [outcome |-> "return", ret |-> nullptr, read |-> <<>>]
    ELSE [outcome |-> "return", ret |-> m[1].first, read |-> <<1>>]

\* GetNameByIndex(index): how the call ends, the key returned and the map
\* positions dereferenced
GetNameByIndex(m, index) ==
    IF AssertBuild /\ ~(index < Len(m))
    THEN [outcome |-> "assert_fail", ret |-> nullptr, read |-> <<>>]
    ELSE IF ~AssertBuild /\ index >= Len(m)
    THEN [outcome |-> "return", ret |-> nullptr, read |-> <<>>]
    ELSE LET nth_element == 1 + index   \* std::next(begin(), index)
         IN  IF nth_element <= Len(m)
             THEN [outcome |-> "return", ret |-> m[nth_element].first,
                   read |-> <<nth_element>>]
             ELSE [outcome |-> "undefined", ret |-> nullptr, read |-> <<nth_element>>]

---------------------------------------------------------------------------
(* The program: static initialisation, then the calls made from main *)

\* the record of one call: who made it, its arguments, how it ended, and the
\* map and heap it started from
Record(caller, op, name, funcCreate, args, index, outcome, ret, calls, read) ==
    [caller |-> caller, op |-> op, name |-> name, funcCreate |-> funcCreate,
     args |-> args, index |-> index, outcome |-> outcome, ret |-> ret,
     calls |-> calls, read |-> read, pre |-> GetMap, preAllocated |-> allocated]

NoFunc == [class |-> "none"]

\* the programs with several registries, a loop or two callers are not running
NoMany == [on |-> FALSE]
NoLoop == [pc |-> "off"]
NoThreads == [on |-> FALSE]

Init ==
    /\ ARDUINO \in BOOLEAN
    /\ FACTORY_NO_ARDUINO_ASSERT \in BOOLEAN
    /\ linked \in SUBSET AllTriggers
    /\ guard = FALSE
    /\ registeredTypesInternal = <<>>
    /\ _FACTORY_INIT = [t \in AllTriggers |-> FALSE]
    /\ pending = linked
    /\ phase = "static_init"
    /\ allocated = 0
    /\ initLog = <<>>
    /\ succeeded = {}
    /\ last = [caller |-> "none", op |-> "none", name |-> nullptr, funcCreate |-> NoFunc,
               args |-> 0, index |-> 0, outcome |-> "none", ret |-> nullptr,
               calls |-> <<>>, read |-> <<>>, pre |-> <<>>, preAllocated |-> 0]
    /\ many = NoMany
    /\ loop = NoLoop
    /\ threads = NoThreads

\* a faulty variant of the initialiser: it is not marked as run, so it can run again
StaticInit_again(t) ==
    /\ phase = "static_init"
    /\ t \in linked
    /\ Len(initLog) < 3
    /\ LET name == GetFactoryKey(t.TClass)
           funcCreate == CreateInstance(t.TClass)
           r == Register(GetMap, name, funcCreate)
       IN  /\ guard' = TRUE
           /\ registeredTypesInternal' = r.map
           /\ _FACTORY_INIT' = [_FACTORY_INIT EXCEPT ![t] = r.ret]
           /\ initLog' = Append(initLog, [trigger |-> t, name |-> name,
                                          funcCreate |-> funcCreate, ret |-> r.ret])
           /\ succeeded' = IF r.ret THEN succeeded \cup {[key |-> Literals[name], funcCreate |-> funcCreate]}
                          ELSE succeeded
           /\ last' = Record("init", "Register", name, funcCreate, 0, 0, "return",
                             r.ret, <<>>, <<>>)
    /\ UNCHANGED <<ext, ARDUINO, FACTORY_NO_ARDUINO_ASSERT, linked, pending, phase, allocated>>

\* the dynamic initialisation of RegisteredInFactory<TParent, TClass, TArgs...>::_FACTORY_INIT
StaticInit(t) ==
    /\ phase = "static_init"
    /\ t \in pending
    /\ LET name == GetFactoryKey(t.TClass)
           funcCreate == CreateInstance(t.TClass)
           r == Register(GetMap, name, funcCreate)
       IN  /\ guard' = TRUE
           /\ registeredTypesInternal' = r.map
           /\ _FACTORY_INIT' = [_FACTORY_INIT EXCEPT ![t] = r.ret]
           /\ initLog' = Append(initLog, [trigger |-> t, name |-> name,
                                          funcCreate |-> funcCreate, ret |-> r.ret])
           /\ succeeded' = IF r.ret THEN succeeded \cup {[key |-> Literals[name], funcCreate |-> funcCreate]}
                          ELSE succeeded
           /\ last' = Record("init", "Register", name, funcCreate, 0, 0, "return",
                             r.ret, <<>>, <<>>)
    /\ pending' = pending \ {t}
    /\ UNCHANGED <<ext, ARDUINO, FACTORY_NO_ARDUINO_ASSERT, linked, phase, allocated>>

\* main is entered once every dynamic initialiser has run
EnterMain ==
    /\ phase = "static_init"
    /\ pending = {}
    /\ phase' = "main"
    /\ UNCHANGED <<ext, ARDUINO, FACTORY_NO_ARDUINO_ASSERT, linked, guard,
                   registeredTypesInternal, _FACTORY_INIT, pending, allocated, initLog,
                   succeeded, last>>

\* main calls Factory<Pet, int>::Register(name, funcCreate)
MainRegister(name, funcCreate) ==
    /\ phase = "main"
    /\ LET r == Register(GetMap, name, funcCreate)
       IN  /\ guard' = TRUE
           /\ registeredTypesInternal' = r.map
           /\ succeeded' = IF r.ret THEN succeeded \cup {[key |-> Literals[name], funcCreate |-> funcCreate]}
                          ELSE succeeded
           /\ last' = Record("main", "Register", name, funcCreate, 0, 0, "return",
                             r.ret, <<>>, <<>>)
    /\ UNCHANGED <<ext, ARDUINO, FACTORY_NO_ARDUINO_ASSERT, linked, _FACTORY_INIT, pending,
                   phase, allocated, initLog>>

\* main calls Factory<Pet, int>::Create(name, args)
MainCreate(name, args) ==
    /\ phase = "main"
    /\ LET r == Create(GetMap, name, args, allocated)
       IN  /\ allocated + Len(r.calls) <= MaxObjects
           /\ guard' = TRUE
           /\ registeredTypesInternal' = r.map
           /\ allocated' = allocated + Len(r.calls)
           /\ phase' = IF r.outcome = "return" THEN phase ELSE "aborted"
           /\ last' = Record("main", "Create", name, NoFunc, args, 0, r.outcome,
                             r.ret, r.calls, <<>>)
    /\ UNCHANGED <<ext, ARDUINO, FACTORY_NO_ARDUINO_ASSERT, linked, _FACTORY_INIT, pending,
                   initLog, succeeded>>

\* main calls Factory<Pet, int>::IsRegistered(name)
MainIsRegistered(name) ==
    /\ phase = "main"
    /\ guard' = TRUE
    /\ registeredTypesInternal' = GetMap
    /\ last' = Record("main", "IsRegistered", name, NoFunc, 0, 0, "return",
                      IsRegistered(GetMap, name), <<>>, <<>>)
    /\ UNCHANGED <<ext, ARDUINO, FACTORY_NO_ARDUINO_ASSERT, linked, _FACTORY_INIT, pending,
                   phase, allocated, initLog, succeeded>>

\* main calls Factory<Pet, int>::GetCount()
MainGetCount ==
    /\ phase = "main"
    /\ guard' = TRUE
    /\ registeredTypesInternal' = GetMap
    /\ last' = Record("main", "GetCount", nullptr, NoFunc, 0, 0, "return",
                      GetCount(GetMap), <<>>, <<>>)
    /\ UNCHANGED <<ext, ARDUINO, FACTORY_NO_ARDUINO_ASSERT, linked, _FACTORY_INIT, pending,
                   phase, allocated, initLog, succeeded>>

\* main calls Factory<Pet, int>::GetNameByIndex(index)
MainGetNameByIndex(index) ==
    /\ phase = "main"
    /\ LET r == GetNameByIndex(GetMap, index)
       IN  /\ guard' = TRUE
           /\ registeredTypesInternal' = GetMap
           /\ phase' = IF r.outcome = "return" THEN phase ELSE "aborted"
           /\ last' = Record("main", "GetNameByIndex", nullptr, NoFunc, 0, index,
                             r.outcome, r.ret, <<>>, r.read)
    /\ UNCHANGED <<ext, ARDUINO, FACTORY_NO_ARDUINO_ASSERT, linked, _FACTORY_INIT, pending,
                   allocated, initLog, succeeded>>

Next ==
    \/ \E t \in AllTriggers : StaticInit(t)
    \/ EnterMain
    \/ \E name \in Ptrs, funcCreate \in Funcs : MainRegister(name, funcCreate)
    \/ \E name \in Ptrs, args \in Ages : MainCreate(name, args)
    \/ \E name \in Ptrs : MainIsRegistered(name)
    \/ MainGetCount
    \/ \E index \in 0..MaxIndex : MainGetNameByIndex(index)

Spec == Init /\ [][Next]_vars

---------------------------------------------------------------------------
(* Vocabulary of the properties: the registry's entries by key content *)

\* the entries of a map, as a set
Entries(m) == {m[i] : i \in 1..Len(m)}

\* some entry of m has a key with the same bytes as those at name
Present(m, name) == \E e \in Entries(m) : Literals[e.first] = Literals[name]

\* the functions stored in m under keys with the same bytes as those at name
FuncsAt(m, name) == {e.second : e \in {x \in Entries(m) : Literals[x.first] = Literals[name]}}

\* the functions with which a Register of these bytes returned true
FuncsRegistered(name) == {s.funcCreate : s \in {x \in succeeded : x.key = Literals[name]}}

\* the map as the program sees it now
Map == GetMap

---------------------------------------------------------------------------
(* Properties *)

\* C1: Register(k, f) with a key k whose bytes are not present returns true,
\* makes GetCount exactly one larger, stores f under k, and leaves every
\* other entry (key and creation function) as it was.
C1_RegisterAbsentKey ==
    (last.op = "Register" /\ ~Present(last.pre, last.name)) =>
        /\ last.outcome = "return"
        /\ last.ret = TRUE
        /\ GetCount(Map) = GetCount(last.pre) + 1
        /\ [first |-> last.name, second |-> last.funcCreate] \in Entries(Map)
        /\ FuncsAt(Map, last.name) = {last.funcCreate}
        /\ Entries(Map) \ {[first |-> last.name, second |-> last.funcCreate]}
               = Entries(last.pre)
        /\ allocated = last.preAllocated

\* C1 witness: main registered a new key in a registry that already held two entries
C1_Witness ==
    /\ last.op = "Register"
    /\ last.caller = "main"
    /\ ~Present(last.pre, last.name)
    /\ Len(last.pre) = 2
    /\ last.ret = TRUE
    /\ Len(Map) = 3

\* C2: Register(k, g) with a key k whose bytes are already present returns
\* false without aborting, leaves GetCount and the whole map unchanged, and
\* the function stored under k stays the one of the registration that
\* succeeded, which is the one Create(k, a) calls.
C2_RegisterDuplicateKey ==
    /\ (last.op = "Register" /\ Present(last.pre, last.name)) =>
            /\ last.outcome = "return"
            /\ last.ret = FALSE
            /\ phase # "aborted"
            /\ GetCount(Map) = GetCount(last.pre)
            /\ Map = last.pre
    /\ \A name \in Ptrs :
            Present(Map, name) =>
                /\ Cardinality(FuncsRegistered(name)) = 1
                /\ FuncsAt(Map, name) = FuncsRegistered(name)
    /\ (last.op = "Create" /\ Present(last.pre, last.name)) =>
            /\ Len(last.calls) = 1
            /\ {last.calls[1].funcCreate} = FuncsRegistered(last.name)

\* C2 witness: a Register under bytes already present, at another address
\* and with another function than the stored one, was rejected
C2_Witness ==
    /\ last.op = "Register"
    /\ Present(last.pre, last.name)
    /\ last.funcCreate \notin FuncsAt(last.pre, last.name)
    /\ \A e \in Entries(last.pre) : e.first # last.name
    /\ last.ret = FALSE

\* C3: no two entries of the registry have keys with equal bytes, and key
\* equality is equality of the bytes: a Register is rejected exactly when
\* an entry with the same bytes exists, whatever the address, so "Cat" at
\* another address is the same key and "cat" is a different key.
C3_KeysUniqueByContent ==
    /\ \A i, j \in 1..Len(Map) :
            i # j => Literals[Map[i].first] # Literals[Map[j].first]
    /\ last.op = "Register" =>
            (last.ret = ~(\E e \in Entries(last.pre) :
                              Literals[e.first] = Literals[last.name]))

\* C3 witness: "Cat" (literal 1) and "cat" are both entries, and a Register of
\* the other "Cat" literal was rejected
C3_Witness ==
    /\ \E e \in Entries(Map) : e.first = 1
    /\ \E e \in Entries(Map) : e.first = 4
    /\ last.op = "Register"
    /\ last.name = 3
    /\ last.ret = FALSE

\* C4: Create(k, a) with a registered key k calls the function f registered
\* under k exactly once, with a, and returns what that call returned; the
\* object is a new one, distinct from every object created earlier, and the
\* registry keeps no trace of it (the map is as before the call).
C4_CreateCallsRegisteredFunction ==
    (last.op = "Create" /\ Present(last.pre, last.name)) =>
        /\ last.outcome = "return"
        /\ Len(last.calls) = 1
        /\ FuncsRegistered(last.name) = {last.calls[1].funcCreate}
        /\ FuncsAt(last.pre, last.name) = {last.calls[1].funcCreate}
        /\ last.calls[1].args = last.args
        /\ last.ret = last.calls[1].result
        /\ last.ret # nullptr
        /\ last.ret \notin 1..last.preAllocated
        /\ allocated = last.preAllocated + 1
        /\ Map = last.pre

\* C4 witness: a second Create, of a key stored in the second position, made
\* the second object
C4_Witness ==
    /\ last.op = "Create"
    /\ Len(last.pre) >= 2
    /\ Literals[last.pre[2].first] = Literals[last.name]
    /\ last.pre[2].second # last.pre[1].second
    /\ last.preAllocated = 1
    /\ last.ret = 2
    /\ last.args = 6

\* C5: without ARDUINO, Create(k, a) with a key k that is not present
\* returns null, calls no creation function and leaves the registry as it
\* was; in particular k is not inserted.
C5_CreateAbsentKeyReturnsNull ==
    (last.op = "Create" /\ ~Present(last.pre, last.name) /\ ~ARDUINO) =>
        /\ last.outcome = "return"
        /\ last.ret = nullptr
        /\ last.calls = <<>>
        /\ allocated = last.preAllocated
        /\ Map = last.pre
        /\ ~Present(Map, last.name)
        /\ phase = "main"

\* C5 witness: a general-purpose build created an absent key in a registry of two
C5_Witness ==
    /\ last.op = "Create"
    /\ ~ARDUINO
    /\ Len(last.pre) = 2
    /\ ~Present(last.pre, last.name)
    /\ last.ret = nullptr

\* C6: in the embedded build (ARDUINO, FACTORY_NO_ARDUINO_ASSERT not set),
\* Create(k, a) with a key k that is not present ends in a failed assertion
\* instead of returning null; with FACTORY_NO_ARDUINO_ASSERT set it returns
\* null.
C6_CreateAbsentKeyAssertsOnArduino ==
    (last.op = "Create" /\ ~Present(last.pre, last.name) /\ ARDUINO) =>
        IF ~FACTORY_NO_ARDUINO_ASSERT
        THEN last.outcome = "assert_fail"
        ELSE last.outcome = "return" /\ last.ret = nullptr

\* C7: IsRegistered(k) returns, without asserting, true exactly when an
\* earlier Register of a key with the same bytes as k returned true; this
\* holds of the call made and of a call with any key in any reachable state.
C7_IsRegisteredIffRegistered ==
    /\ last.op = "IsRegistered" =>
            /\ last.outcome = "return"
            /\ phase # "aborted"
            /\ last.ret = (\E x \in succeeded : x.key = Literals[last.name])
            /\ Map = last.pre
    /\ \A name \in Ptrs :
            IsRegistered(Map, name) = (\E x \in succeeded : x.key = Literals[name])

\* C7 witness: IsRegistered returned true for the "Cat" literal at address 3
\* while the entry holds the one at address 1, and "cat" is not registered
C7_Witness ==
    /\ last.op = "IsRegistered"
    /\ last.name = 3
    /\ last.ret = TRUE
    /\ \E e \in Entries(Map) : e.first = 1
    /\ ~IsRegistered(Map, 4)

\* C8: without ARDUINO, GetNameByIndex(i) with i < GetCount() returns a
\* non-null key for which IsRegistered is true, and with i >= GetCount(),
\* also on an empty registry, it returns null.
C8_GetNameByIndexGeneralBuild ==
    (last.op = "GetNameByIndex" /\ ~ARDUINO) =>
        /\ last.outcome = "return"
        /\ phase = "main"
        /\ Map = last.pre
        /\ IF last.index < GetCount(last.pre)
           THEN /\ last.ret # nullptr
                /\ last.ret \in Ptrs
                /\ Present(Map, last.ret)
                /\ IsRegistered(Map, last.ret)
                /\ last.read = <<1 + last.index>>
           ELSE /\ last.ret = nullptr
                /\ last.read = <<>>

\* C8 witness: a general-purpose build read the last of three keys
C8_Witness ==
    /\ last.op = "GetNameByIndex"
    /\ ~ARDUINO
    /\ GetCount(last.pre) = 3
    /\ last.index = 2
    /\ last.ret # nullptr

InitCalls(t) == {i \in 1..Len(initLog) : initLog[i].trigger = t}

\* C10: the initialiser of every instantiated trigger runs at most once, at
\* any time; each run is one Register(TClass::GetFactoryKey(),
\* TClass::CreateInstance); and when main runs or has made a call, every
\* instantiated trigger has run exactly once, none is pending and none runs
\* again.
C10_TriggerInitialisesOnceBeforeMain ==
    /\ \A t \in AllTriggers :
            /\ Cardinality(InitCalls(t)) <= 1
            /\ t \notin linked => InitCalls(t) = {}
            /\ t \in linked \ pending => Cardinality(InitCalls(t)) = 1
    /\ \A i \in 1..Len(initLog) :
            /\ initLog[i].name = GetFactoryKey(initLog[i].trigger.TClass)
            /\ initLog[i].funcCreate = CreateInstance(initLog[i].trigger.TClass)
            /\ initLog[i].trigger \in linked
    /\ (phase # "static_init" \/ last.caller = "main") =>
            /\ pending = {}
            /\ \A t \in linked : Cardinality(InitCalls(t)) = 1
            /\ Len(initLog) = Cardinality(linked)

\* C10 witness: both triggers ran, Dog before Cat, and main then made a call
C10_Witness ==
    /\ linked = AllTriggers
    /\ Len(initLog) = 2
    /\ initLog[1].trigger.TClass = "Dog"
    /\ initLog[2].trigger.TClass = "Cat"
    /\ phase = "main"
    /\ last.caller = "main"
    /\ last.op = "Create"

---------------------------------------------------------------------------
(* Properties of the registry over time and of its enumeration order *)

\* C14: entries are never removed or replaced: in every step, every (key, f)
\* for which Register has returned true is afterwards still registered,
\* with IsRegistered true and f the function stored under the key, every
\* entry of the map is kept as it is, and GetCount does not decrease.
C14_EntriesNeverRemovedOrReplaced ==
    [][ /\ succeeded \subseteq succeeded'
        /\ \A name \in Ptrs, f \in Funcs :
               [key |-> Literals[name], funcCreate |-> f] \in succeeded =>
                   /\ IsRegistered(Map', name)
                   /\ FuncsAt(Map', name) = {f}
        /\ Entries(Map) \subseteq Entries(Map')
        /\ GetCount(Map') >= GetCount(Map) ]_vars

\* C14 witness: three registrations have succeeded, and a later Register of
\* one of the keys with another function was rejected
C14_Witness ==
    /\ Cardinality(succeeded) = 3
    /\ GetCount(Map) = 3
    /\ last.op = "Register"
    /\ last.ret = FALSE
    /\ last.funcCreate \notin FuncsAt(Map, last.name)

\* C15: Create, IsRegistered, GetCount and GetNameByIndex are read-only:
\* whatever the key (present or not) or the index (in range or not), and
\* however the call ends, the map after the call is the map before it,
\* entry by entry and function by function.
C15_QueriesAreReadOnly ==
    last.op \in {"Create", "IsRegistered", "GetCount", "GetNameByIndex"} =>
        /\ Map = last.pre
        /\ Entries(Map) = Entries(last.pre)
        /\ \A name \in Ptrs : FuncsAt(Map, name) = FuncsAt(last.pre, name)
        /\ \A name \in Ptrs : FuncsAt(Map, name) = FuncsRegistered(name)

\* C15 witness: an embedded build created a key that is not present in a
\* registry of two entries
C15_Witness ==
    /\ last.op = "Create"
    /\ ARDUINO
    /\ ~FACTORY_NO_ARDUINO_ASSERT
    /\ GetCount(last.pre) = 2
    /\ ~Present(last.pre, last.name)
    /\ GetCount(Map) = 2

\* the key bytes for which a Register has returned true
KeysRegistered == {x.key : x \in succeeded}

\* s is before t in ordinal byte order
BytesLess(s, t) == strcmp_from(s, t, 1) < 0

\* C16: enumeration by index follows the order of the keys' bytes: keys at
\* increasing indices are strictly increasing under strcmp, and the key at
\* index i is the registered key with exactly i registered keys before it,
\* so it depends on the set of successful registrations only and not on
\* their order.
C16_EnumerationIsKeySorted ==
    /\ \A i, j \in 0..(GetCount(Map) - 1) :
            i < j =>
                /\ GetNameByIndex(Map, i).outcome = "return"
                /\ GetNameByIndex(Map, j).outcome = "return"
                /\ GetNameByIndex(Map, i).ret \in Ptrs
                /\ GetNameByIndex(Map, j).ret \in Ptrs
                /\ strcmp(GetNameByIndex(Map, i).ret, GetNameByIndex(Map, j).ret) < 0
    /\ \A i \in 0..(GetCount(Map) - 1) :
            /\ GetNameByIndex(Map, i).ret \in Ptrs
            /\ Literals[GetNameByIndex(Map, i).ret] \in KeysRegistered
            /\ Cardinality({k \in KeysRegistered :
                                BytesLess(k, Literals[GetNameByIndex(Map, i).ret])}) = i
    /\ (last.op = "GetNameByIndex" /\ last.index < GetCount(last.pre)) =>
            /\ last.ret \in Ptrs
            /\ Cardinality({k \in KeysRegistered :
                                BytesLess(k, Literals[last.ret])}) = last.index

\* C16 witness: Dog registered before Cat and "cat" last, and index 0 gave "Cat"
C16_Witness ==
    /\ Len(initLog) = 2
    /\ initLog[1].trigger.TClass = "Dog"
    /\ initLog[2].trigger.TClass = "Cat"
    /\ GetCount(last.pre) = 3
    /\ last.op = "GetNameByIndex"
    /\ last.index = 0
    /\ last.ret = 1

---------------------------------------------------------------------------
(* Startup with a key that is not unique: three triggers of Factory<Pet, int>, *)
(* two of them with the key bytes "Cat", and the queries of main               *)

StartupClasses == Classes \cup {"Tabby"}

StartupTriggers ==
    {[TParent |-> "Pet", TClass |-> c, TArgs |-> "int"] : c \in StartupClasses}

InitStartup ==
    /\ ARDUINO \in BOOLEAN
    /\ FACTORY_NO_ARDUINO_ASSERT \in BOOLEAN
    /\ linked \in SUBSET StartupTriggers
    /\ guard = FALSE
    /\ registeredTypesInternal = <<>>
    /\ _FACTORY_INIT = [t \in StartupTriggers |-> FALSE]
    /\ pending = linked
    /\ phase = "static_init"
    /\ allocated = 0
    /\ initLog = <<>>
    /\ succeeded = {}
    /\ last = [caller |-> "none", op |-> "none", name |-> nullptr, funcCreate |-> NoFunc,
               args |-> 0, index |-> 0, outcome |-> "none", ret |-> nullptr,
               calls |-> <<>>, read |-> <<>>, pre |-> <<>>, preAllocated |-> 0]
    /\ many = NoMany
    /\ loop = NoLoop
    /\ threads = NoThreads

NextStartup ==
    \/ \E t \in StartupTriggers : StaticInit(t)
    \/ EnterMain
    \/ \E name \in Ptrs, args \in Ages : MainCreate(name, args)
    \/ \E name \in Ptrs : MainIsRegistered(name)
    \/ MainGetCount
    \/ \E index \in 0..MaxIndex : MainGetNameByIndex(index)

SpecStartup == InitStartup /\ [][NextStartup]_vars

\* the initialisers that ran before the i-th one with the same key bytes
EarlierSameKey(i) ==
    {j \in 1..(i - 1) : Literals[initLog[j].name] = Literals[initLog[i].name]}

\* C12: when triggers of one registry use the same key bytes then, in every
\* order of initialisation, the first initialiser's Register returns true
\* and every later one returns false without aborting, there is exactly
\* one entry for the key and it holds the key pointer and the function of
\* the trigger that ran first, and after startup GetCount is the number of
\* distinct keys among the triggers.
C12_FirstWriterWins ==
    /\ \A i \in 1..Len(initLog) :
            /\ initLog[i].ret = (EarlierSameKey(i) = {})
            /\ _FACTORY_INIT[initLog[i].trigger] = initLog[i].ret
            /\ Cardinality({x \in Entries(Map) :
                                Literals[x.first] = Literals[initLog[i].name]}) = 1
            /\ EarlierSameKey(i) = {} =>
                   /\ [first |-> initLog[i].name, second |-> initLog[i].funcCreate]
                          \in Entries(Map)
                   /\ FuncsAt(Map, initLog[i].name) = {initLog[i].funcCreate}
    /\ last.caller = "init" => phase # "aborted"
    /\ pending = {} =>
            GetCount(Map) = Cardinality({Literals[GetFactoryKey(t.TClass)] : t \in linked})

\* C12 witness: Tabby ran first, Cat last and was rejected, and main counted two entries
C12_Witness ==
    /\ Len(initLog) = 3
    /\ initLog[1].trigger.TClass = "Tabby"
    /\ initLog[3].trigger.TClass = "Cat"
    /\ initLog[3].ret = FALSE
    /\ FuncsAt(Map, 1) = {CreateInstance("Tabby")}
    /\ phase = "main"
    /\ last.op = "GetCount"
    /\ last.ret = 2

\* the keys of the linked triggers have pairwise distinct bytes
TriggerKeysDistinct ==
    \A t, u \in linked :
        t # u => Literals[GetFactoryKey(t.TClass)] # Literals[GetFactoryKey(u.TClass)]

\* C17: the map does not exist before the first call of an operation, that
\* call sees it empty, and every later call sees what the earlier ones
\* left: no registration of an initialiser is lost, in any order of
\* initialisation, and when the triggers' keys are pairwise distinct the
\* entries after startup are exactly the triggers' (key, function) pairs,
\* whatever the order, and GetCount is the number of triggers.
C17_LazyStorageKeepsRegistrations ==
    /\ ~guard => (last.op = "none" /\ initLog = <<>> /\ Map = <<>>)
    /\ last.op # "none" => guard
    /\ Len(initLog) >= 1 => initLog[1].ret = TRUE
    /\ (last.caller = "main" /\ linked = {}) => last.pre = <<>>
    /\ \A i \in 1..Len(initLog) : Present(Map, initLog[i].name)
    /\ (TriggerKeysDistinct /\ pending = {}) =>
            /\ Entries(Map) = {[first |-> GetFactoryKey(t.TClass),
                                second |-> CreateInstance(t.TClass)] : t \in linked}
            /\ GetCount(Map) = Cardinality(linked)
            /\ \A i \in 1..Len(initLog) : initLog[i].ret = TRUE

\* C17 witness: Tabby then Dog initialised, and main counted two entries
C17_Witness ==
    /\ Cardinality(linked) = 2
    /\ TriggerKeysDistinct
    /\ Len(initLog) = 2
    /\ initLog[1].trigger.TClass = "Tabby"
    /\ initLog[2].trigger.TClass = "Dog"
    /\ phase = "main"
    /\ last.op = "GetCount"
    /\ last.ret = 2

---------------------------------------------------------------------------
(* Several constructors: Factory<Pet, int> and Factory<Pet, int, bool>, each *)
(* specialisation with the static map of its own GetMap                      *)

\* the argument lists TArgs... of the two specialisations
Signatures == {"int", "int_bool"}

\* the argument tuples a caller passes for an argument list
ArgsOf(TArgs) == IF TArgs = "int" THEN Ages ELSE {<<5, TRUE>>, <<6, FALSE>>}

\* the overload of TClass::CreateInstance that takes TArgs...
CreateInstanceOverload(TClass, TArgs) == [class |-> TClass, TArgs |-> TArgs]

\* the triggers: Dog has both constructors, Cat the (int) one only
ManyTriggers ==
    { [TParent |-> "Pet", TClass |-> "Dog", TArgs |-> "int"],
      [TParent |-> "Pet", TClass |-> "Dog", TArgs |-> "int_bool"],
      [TParent |-> "Pet", TClass |-> "Cat", TArgs |-> "int"] }

\* a faulty variant of StorageOf: one map shared by all the specialisations
StorageOf_shared(TArgs) == "int"

\* the static registeredTypesInternal that GetMap of Factory<Pet, TArgs...> returns
StorageOf(TArgs) == TArgs

\* the record of one call on one registry, with all the maps it started from
ManyRecord(TArgs, op, name, funcCreate, args, ret, calls) ==
    [TArgs |-> TArgs, op |-> op, name |-> name, funcCreate |-> funcCreate,
     args |-> args, ret |-> ret, calls |-> calls, pre |-> many.maps,
     preAllocated |-> many.allocated]

\* what main and the initialisers leave alone when they use the two registries
ManyFrame ==
    UNCHANGED <<ARDUINO, FACTORY_NO_ARDUINO_ASSERT, linked, guard,
                registeredTypesInternal, _FACTORY_INIT, pending, phase, allocated,
                initLog, succeeded, last, loop, threads>>

InitMany ==
    /\ ARDUINO = FALSE
    /\ FACTORY_NO_ARDUINO_ASSERT = FALSE
    /\ linked = {}
    /\ guard = FALSE
    /\ registeredTypesInternal = <<>>
    /\ _FACTORY_INIT = [t \in AllTriggers |-> FALSE]
    /\ pending = {}
    /\ phase = "static_init"
    /\ allocated = 0
    /\ initLog = <<>>
    /\ succeeded = {}
    /\ last = [caller |-> "none", op |-> "none", name |-> nullptr, funcCreate |-> NoFunc,
               args |-> 0, index |-> 0, outcome |-> "none", ret |-> nullptr,
               calls |-> <<>>, read |-> <<>>, pre |-> <<>>, preAllocated |-> 0]
    /\ loop = NoLoop
    /\ threads = NoThreads
    /\ \E ts \in SUBSET ManyTriggers :
           many = [on |-> TRUE,
                   maps |-> [g \in Signatures |-> <<>>],
                   linked |-> ts,
                   pending |-> ts,
                   allocated |-> 0,
                   succeeded |-> [g \in Signatures |-> {}],
                   last |-> [TArgs |-> "none", op |-> "none", name |-> nullptr,
                             funcCreate |-> NoFunc, args |-> 0, ret |-> nullptr,
                             calls |-> <<>>, pre |-> [g \in Signatures |-> <<>>],
                             preAllocated |-> 0]]

\* the initialiser of RegisteredInFactory<Pet, TClass, TArgs...>::_FACTORY_INIT
ManyStaticInit(t) ==
    /\ many.on
    /\ t \in many.pending
    /\ LET name == GetFactoryKey(t.TClass)
           funcCreate == CreateInstanceOverload(t.TClass, t.TArgs)
           r == Register(many.maps[StorageOf(t.TArgs)], name, funcCreate)
       IN  many' = [many EXCEPT
                      !.maps[StorageOf(t.TArgs)] = r.map,
                      !.pending = @ \ {t},
                      !.succeeded[t.TArgs] =
                          IF r.ret THEN @ \cup {[key |-> Literals[name],
                                                 funcCreate |-> funcCreate]}
                          ELSE @,
                      !.last = ManyRecord(t.TArgs, "Register", name, funcCreate, 0,
                                          r.ret, <<>>)]
    /\ ManyFrame

\* main calls Factory<Pet, TArgs...>::Register(name, funcCreate)
ManyRegister(TArgs, name, funcCreate) ==
    /\ many.on
    /\ many.pending = {}
    /\ funcCreate.TArgs = TArgs
    /\ LET r == Register(many.maps[StorageOf(TArgs)], name, funcCreate)
       IN  many' = [many EXCEPT
                      !.maps[StorageOf(TArgs)] = r.map,
                      !.succeeded[TArgs] =
                          IF r.ret THEN @ \cup {[key |-> Literals[name],
                                                 funcCreate |-> funcCreate]}
                          ELSE @,
                      !.last = ManyRecord(TArgs, "Register", name, funcCreate, 0,
                                          r.ret, <<>>)]
    /\ ManyFrame

\* main calls Factory<Pet, TArgs...>::Create(name, args...)
ManyCreate(TArgs, name, args) ==
    /\ many.on
    /\ many.pending = {}
    /\ LET r == Create(many.maps[StorageOf(TArgs)], name, args, many.allocated)
       IN  /\ many.allocated + Len(r.calls) <= MaxObjects
           /\ many' = [many EXCEPT
                         !.maps[StorageOf(TArgs)] = r.map,
                         !.allocated = @ + Len(r.calls),
                         !.last = ManyRecord(TArgs, "Create", name, NoFunc, args,
                                             r.ret, r.calls)]
    /\ ManyFrame

\* main calls Factory<Pet, TArgs...>::GetCount()
ManyGetCount(TArgs) ==
    /\ many.on
    /\ many.pending = {}
    /\ many' = [many EXCEPT
                  !.last = ManyRecord(TArgs, "GetCount", nullptr, NoFunc, 0,
                                      GetCount(many.maps[StorageOf(TArgs)]), <<>>)]
    /\ ManyFrame

\* the keys main uses with the two registries: the "Cat" and "Dog" literals
ManyKeys == {GetFactoryKey(c) : c \in Classes}

NextMany ==
    \/ \E t \in ManyTriggers : ManyStaticInit(t)
    \/ \E g \in Signatures, name \in ManyKeys, c \in Classes :
           ManyRegister(g, name, CreateInstanceOverload(c, g))
    \/ \E g \in Signatures, name \in ManyKeys : \E args \in ArgsOf(g) :
           ManyCreate(g, name, args)
    \/ \E g \in Signatures : ManyGetCount(g)

SpecMany == InitMany /\ [][NextMany]_vars

\* C11: the registries of different argument lists are independent: a
\* Register or Create on one leaves the other's map, and so its GetCount,
\* as it was; GetCount of each is the number of registrations that
\* succeeded on it, so Dog registered under "Dog" with both constructors
\* counts once in each; and Create on a registry calls only a function
\* that was registered on that registry, with that argument list.
C11_RegistriesIndependent ==
    /\ \A g \in Signatures :
            many.last.op \in {"Register", "Create", "GetCount"} /\ g # many.last.TArgs =>
                /\ many.maps[g] = many.last.pre[g]
                /\ GetCount(many.maps[g]) = GetCount(many.last.pre[g])
    /\ \A g \in Signatures :
            /\ GetCount(many.maps[StorageOf(g)]) = Cardinality(many.succeeded[g])
            /\ \A e \in Entries(many.maps[StorageOf(g)]) :
                   /\ e.second.TArgs = g
                   /\ [key |-> Literals[e.first], funcCreate |-> e.second]
                          \in many.succeeded[g]
    /\ many.last.op = "Register" =>
            many.last.ret = ~Present(many.last.pre[many.last.TArgs], many.last.name)
    /\ many.last.op = "GetCount" =>
            many.last.ret = Cardinality(many.succeeded[many.last.TArgs])
    /\ many.last.op = "Create" =>
            /\ Len(many.last.calls) =
                   (IF Present(many.last.pre[many.last.TArgs], many.last.name)
                    THEN 1 ELSE 0)
            /\ \A i \in 1..Len(many.last.calls) :
                   /\ many.last.calls[i].funcCreate.TArgs = many.last.TArgs
                   /\ [key |-> Literals[many.last.name],
                       funcCreate |-> many.last.calls[i].funcCreate]
                          \in many.succeeded[many.last.TArgs]

\* C11 witness: Dog alone is registered, by its two triggers, under "Dog" in
\* both registries, and GetCount of the (int, bool) registry returned 1
C11_Witness ==
    /\ many.linked = {t \in ManyTriggers : t.TClass = "Dog"}
    /\ many.pending = {}
    /\ \A g \in Signatures :
            /\ GetCount(many.maps[g]) = 1
            /\ many.maps[g][1].first = GetFactoryKey("Dog")
            /\ many.maps[g][1].second = CreateInstanceOverload("Dog", g)
    /\ many.last.op = "GetCount"
    /\ many.last.TArgs = "int_bool"
    /\ many.last.ret = 1

---------------------------------------------------------------------------
(* The loop of the README's main over the registered keys *)

InitLoop ==
    /\ ARDUINO \in BOOLEAN
    /\ FACTORY_NO_ARDUINO_ASSERT \in BOOLEAN
    /\ linked \in SUBSET AllTriggers
    /\ guard = FALSE
    /\ registeredTypesInternal = <<>>
    /\ _FACTORY_INIT = [t \in AllTriggers |-> FALSE]
    /\ pending = linked
    /\ phase = "static_init"
    /\ allocated = 0
    /\ initLog = <<>>
    /\ succeeded = {}
    /\ last = [caller |-> "none", op |-> "none", name |-> nullptr, funcCreate |-> NoFunc,
               args |-> 0, index |-> 0, outcome |-> "none", ret |-> nullptr,
               calls |-> <<>>, read |-> <<>>, pre |-> <<>>, preAllocated |-> 0]
    /\ many = NoMany
    /\ loop = [pc |-> "idle", registeredPetCount |-> 0, n |-> 0, visited |-> <<>>]
    /\ threads = NoThreads

\* what the loop leaves alone
LoopFrame ==
    UNCHANGED <<ARDUINO, FACTORY_NO_ARDUINO_ASSERT, linked, _FACTORY_INIT, pending,
                initLog, succeeded, last, many, threads>>

\* main registers a further type before its loop
LoopRegister(name, funcCreate) ==
    /\ loop.pc = "idle"
    /\ MainRegister(name, funcCreate)

\* size_t registeredPetCount = Factory<Pet, int>::GetCount(); n = 0
LoopStart ==
    /\ phase = "main"
    /\ loop.pc = "idle"
    /\ guard' = TRUE
    /\ registeredTypesInternal' = GetMap
    /\ loop' = [loop EXCEPT !.pc = "for", !.registeredPetCount = GetCount(GetMap),
                            !.n = 0]
    /\ UNCHANGED <<phase, allocated>>
    /\ LoopFrame

\* one pass of the body: GetKeyByIndex(n), age = 5 + n, Create(key, age),
\* pet->GetGreeting(), delete pet, n++
LoopBody ==
    /\ phase = "main"
    /\ loop.pc = "for"
    /\ loop.n < loop.registeredPetCount
    /\ LET k == GetNameByIndex(GetMap, loop.n)
           age == 5 + loop.n
       IN  IF k.outcome # "return"
           THEN /\ loop' = [loop EXCEPT !.pc = "aborted",
                              !.visited = Append(@, [key |-> nullptr, age |-> age,
                                  outcome |-> k.outcome, pet |-> nullptr,
                                  calls |-> <<>>])]
                /\ phase' = "aborted"
                /\ UNCHANGED <<guard, registeredTypesInternal, allocated>>
           ELSE IF k.ret = nullptr
           THEN \* printf("%s", key) and strcmp read through a null pointer
                /\ loop' = [loop EXCEPT !.pc = "aborted",
                              !.visited = Append(@, [key |-> nullptr, age |-> age,
                                  outcome |-> "undefined", pet |-> nullptr,
                                  calls |-> <<>>])]
                /\ phase' = "aborted"
                /\ UNCHANGED <<guard, registeredTypesInternal, allocated>>
           ELSE LET r == Create(GetMap, k.ret, age, allocated)
                IN  /\ registeredTypesInternal' = r.map
                    /\ guard' = TRUE
                    /\ IF r.ret = nullptr
                       THEN \* pet->GetGreeting() through a null pointer
                            /\ loop' = [loop EXCEPT !.pc = "aborted",
                                  !.visited = Append(@, [key |-> k.ret, age |-> age,
                                      outcome |-> "undefined", pet |-> nullptr,
                                      calls |-> r.calls])]
                            /\ phase' = "aborted"
                       ELSE /\ loop' = [loop EXCEPT !.n = @ + 1,
                                  !.visited = Append(@, [key |-> k.ret, age |-> age,
                                      outcome |-> "return", pet |-> r.ret,
                                      calls |-> r.calls])]
                            /\ phase' = phase
                    \* delete pet: the heap is as before the pass
                    /\ allocated' = allocated
    /\ LoopFrame

\* n < registeredPetCount is false: return 0
LoopExit ==
    /\ phase = "main"
    /\ loop.pc = "for"
    /\ ~(loop.n < loop.registeredPetCount)
    /\ loop' = [loop EXCEPT !.pc = "done"]
    /\ UNCHANGED <<guard, registeredTypesInternal, phase, allocated>>
    /\ LoopFrame

NextLoop ==
    \/ \E t \in AllTriggers : StaticInit(t)
    \/ EnterMain
    \/ \E name \in Ptrs, funcCreate \in Funcs : LoopRegister(name, funcCreate)
    \/ LoopStart
    \/ LoopBody
    \/ LoopExit

SpecLoop == InitLoop /\ [][NextLoop]_vars

\* C13: on a registry filled by Register calls only, the loop over n from 0
\* to GetCount()-1 gets a non-null key from GetKeyByIndex(n) and a non-null
\* instance from Create(key, age), made by one call, with that age, of the
\* function registered under that key; the n-th pass sees the n-th entry,
\* and when the loop is over it has seen every registered key exactly once.
C13_LoopVisitsEveryKeyOnce ==
    /\ loop.pc # "aborted"
    /\ Len(loop.visited) <= GetCount(Map)
    /\ \A i \in 1..Len(loop.visited) :
           LET v == loop.visited[i]
           IN  /\ v.outcome = "return"
               /\ v.key # nullptr
               /\ v.key = Map[i].first
               /\ v.pet # nullptr
               /\ Len(v.calls) = 1
               /\ v.calls[1].result = v.pet
               /\ v.calls[1].args = 5 + (i - 1)
               /\ {v.calls[1].funcCreate} = FuncsAt(Map, v.key)
               /\ {v.calls[1].funcCreate} = FuncsRegistered(v.key)
    /\ \A i, j \in 1..Len(loop.visited) :
           i # j => Literals[loop.visited[i].key] # Literals[loop.visited[j].key]
    /\ loop.pc = "done" =>
           /\ Len(loop.visited) = GetCount(Map)
           /\ {Literals[loop.visited[i].key] : i \in 1..Len(loop.visited)} = KeysRegistered

\* C13 witness: the loop is over on a registry of three keys, filled by an
\* initialiser and by Register calls of main, where main registered Cat's
\* function under a key "Dog" and the loop's pass for that key called it
C13_Witness ==
    /\ loop.pc = "done"
    /\ Len(loop.visited) = 3
    /\ initLog # <<>>
    /\ \E i \in 1..3 :
           /\ Literals[loop.visited[i].key] = Literals[GetFactoryKey("Dog")]
           /\ loop.visited[i].calls[1].funcCreate = CreateInstance("Cat")

---------------------------------------------------------------------------
(* Two callers inside Register at once: each runs the lookup of lines 223-224, *)
(* then the test and insertion of lines 225-230, as steps that do not overlap  *)

\* the two callers
Threads == {1, 2}

\* the other caller
Other(th) == 3 - th

\* the iterator end() held in typeTuple; an iterator to an element is held
\* as the element's key pointer, which stays valid across insertions
EndNode == 0

InitRace ==
    /\ ARDUINO = FALSE
    /\ FACTORY_NO_ARDUINO_ASSERT = FALSE
    /\ linked \in SUBSET AllTriggers
    /\ guard = FALSE
    /\ registeredTypesInternal = <<>>
    /\ _FACTORY_INIT = [t \in AllTriggers |-> FALSE]
    /\ pending = linked
    /\ phase = "static_init"
    /\ allocated = 0
    /\ initLog = <<>>
    /\ succeeded = {}
    /\ last = [caller |-> "none", op |-> "none", name |-> nullptr, funcCreate |-> NoFunc,
               args |-> 0, index |-> 0, outcome |-> "none", ret |-> nullptr,
               calls |-> <<>>, read |-> <<>>, pre |-> <<>>, preAllocated |-> 0]
    /\ many = NoMany
    /\ loop = NoLoop
    /\ threads = [on |-> TRUE,
                  call |-> [th \in Threads |->
                              [pc |-> "idle", name |-> nullptr, funcCreate |-> NoFunc,
                               typeTuple |-> EndNode, ret |-> FALSE, pre |-> <<>>]],
                  log |-> <<>>]

\* what a step of a caller of Register leaves alone
RaceFrame ==
    UNCHANGED <<ARDUINO, FACTORY_NO_ARDUINO_ASSERT, linked, _FACTORY_INIT, pending,
                phase, allocated, initLog, last, many, loop>>

\* caller th enters Register(name, funcCreate):
\* registeredTypes = GetMap(); typeTuple = registeredTypes->find(name)
RaceLookup(th, name, funcCreate) ==
    /\ phase = "main"
    /\ threads.on
    /\ threads.call[th].pc = "idle"
    /\ guard' = TRUE
    /\ registeredTypesInternal' = GetMap
    /\ LET i == find(GetMap, name)
       IN  threads' = [threads EXCEPT
                         !.call[th] = [pc |-> "test", name |-> name,
                                       funcCreate |-> funcCreate,
                                       typeTuple |-> IF i = end(GetMap) THEN EndNode
                                                     ELSE GetMap[i].first,
                                       ret |-> FALSE, pre |-> GetMap],
                         !.log = Append(@, [th |-> th, step |-> "lookup"])]
    /\ UNCHANGED succeeded
    /\ RaceFrame

\* caller th goes on: if (typeTuple == registeredTypes->end())
\* { registeredTypes[name] = funcCreate; return true; } return false;
RaceInsert(th) ==
    /\ phase = "main"
    /\ threads.on
    /\ threads.call[th].pc = "test"
    /\ LET c == threads.call[th]
       IN  IF c.typeTuple = EndNode
           THEN /\ registeredTypesInternal' = MapAssign(GetMap, c.name, c.funcCreate)
                /\ succeeded' = succeeded \cup {[key |-> Literals[c.name],
                                                 funcCreate |-> c.funcCreate]}
                /\ threads' = [threads EXCEPT
                                 !.call[th].pc = "done", !.call[th].ret = TRUE,
                                 !.log = Append(@, [th |-> th, step |-> "insert"])]
           ELSE /\ registeredTypesInternal' = GetMap
                /\ succeeded' = succeeded
                /\ threads' = [threads EXCEPT
                                 !.call[th].pc = "done", !.call[th].ret = FALSE,
                                 !.log = Append(@, [th |-> th, step |-> "insert"])]
    /\ guard' = TRUE
    /\ RaceFrame

NextRace ==
    \/ \E t \in AllTriggers : StaticInit(t)
    \/ EnterMain
    \/ \E th \in Threads, name \in Ptrs, funcCreate \in Funcs :
           RaceLookup(th, name, funcCreate)
    \/ \E th \in Threads : RaceInsert(th)

SpecRace == InitRace /\ [][NextRace]_vars

\* the position in the log of caller th's step
StepAt(th, step) ==
    CHOOSE i \in 1..Len(threads.log) :
        threads.log[i] = [th |-> th, step |-> step]

\* both calls are over and were for keys of the same bytes, absent when the
\* first of them began
BothRegisteredSameAbsentKey ==
    /\ threads.call[1].pc = "done"
    /\ threads.call[2].pc = "done"
    /\ Literals[threads.call[1].name] = Literals[threads.call[2].name]
    /\ ~Present(threads.call[threads.log[1].th].pre, threads.call[1].name)

\* each call's lookup step came before the other call's insert step
Interleaved ==
    \A th \in Threads : StepAt(th, "lookup") < StepAt(Other(th), "insert")

\* the caller whose insert step came last
LastInserter ==
    IF StepAt(1, "insert") > StepAt(2, "insert") THEN 1 ELSE 2

\* C18 as claimed: when two Register calls for the same absent key have
\* their lookup and insert steps interleaved, exactly one returns true and
\* the registry ends with one entry for the key, holding the function of the
\* call that returned true.
C18_ExactlyOneConcurrentRegisterReturnsTrue ==
    BothRegisteredSameAbsentKey /\ Interleaved =>
        /\ \E th \in Threads :
               /\ threads.call[th].ret = TRUE
               /\ threads.call[Other(th)].ret = FALSE
               /\ FuncsAt(Map, threads.call[th].name) = {threads.call[th].funcCreate}
        /\ Cardinality({i \in 1..Len(Map) :
               Literals[Map[i].first] = Literals[threads.call[1].name]}) = 1

\* C18 as amended: for two Register calls for the same absent key, a call
\* returns true exactly when its lookup step found the key absent; the
\* registry ends with one entry for the key. When the steps are interleaved
\* both calls return true, and the entry has the key pointer of the call
\* that inserted first and the function of the call that inserted last;
\* otherwise only the call that ran first returns true and the entry holds
\* its key pointer and function.
C18_InterleavedRegisterLastInsertWins ==
    BothRegisteredSameAbsentKey =>
        /\ \A th \in Threads :
               threads.call[th].ret
                   = ~Present(threads.call[th].pre, threads.call[th].name)
        /\ Cardinality({i \in 1..Len(Map) :
               Literals[Map[i].first] = Literals[threads.call[1].name]}) = 1
        /\ IF Interleaved
           THEN /\ threads.call[1].ret /\ threads.call[2].ret
                /\ Entries(Map) \ Entries(threads.call[threads.log[1].th].pre)
                       = {[first |-> threads.call[Other(LastInserter)].name,
                           second |-> threads.call[LastInserter].funcCreate]}
           ELSE /\ threads.call[threads.log[1].th].ret
                /\ ~threads.call[Other(threads.log[1].th)].ret
                /\ Entries(Map) \ Entries(threads.call[threads.log[1].th].pre)
                       = {[first |-> threads.call[threads.log[1].th].name,
                           second |-> threads.call[threads.log[1].th].funcCreate]}

\* C18 witness: two interleaved calls for "Cat", through different pointers
\* and with different functions, both returned true, beside an entry that an
\* initialiser had made
C18_Witness ==
    /\ BothRegisteredSameAbsentKey
    /\ Interleaved
    /\ initLog # <<>>
    /\ threads.call[1].ret /\ threads.call[2].ret
    /\ threads.call[1].name # threads.call[2].name
    /\ threads.call[1].funcCreate # threads.call[2].funcCreate
    /\ FuncsAt(Map, threads.call[1].name) = {threads.call[LastInserter].funcCreate}

============================================================================
